---- MODULE Spec2Model ----
(***************************************************************************)
(* Adversarial_learning/utils.py: the DataGenerator sample server, the     *)
(* MetricAccumulator metric tracker, the lru_cache'd disk loaders and the  *)
(* write_epoch_results summary writer.                                     *)
(*                                                                         *)
(* Abstractions.  A feature tensor is an object; the model names it by the *)
(* position (1..len) it had in the constructor's input, so two features    *)
(* with equal contents stay distinguishable.  Labels and metric values are *)
(* integers.  A gradient is held in hundredths (the code rounds to two     *)
(* decimals).  Text written to a file is a sequence of string tokens.      *)
(* Python positions are 0-based, TLA+ sequences 1-based: PyGet converts.   *)
(***************************************************************************)
EXTENDS Integers, Sequences, FiniteSets, TLC

\* ---------------------------------------------------------------- bounds
MaxSamples == 2        \* longest feature / label list given to DataGenerator
MaxOverrun == 2        \* failing next_sample calls followed past the end
MaxCalls   == 5        \* next_sample calls counted by the call counter
MaxAdds    == 8        \* MetricAccumulator.add calls
MaxBatch   == 8        \* largest gradient_batch given to MetricAccumulator
MaxWrites  == 3        \* write_epoch_results calls

LabelValues  == {-2, 1}        \* entries of the labels tensor
Label2Values == {0, 1}         \* entries of the labels_2 tensor (class index)

VARIABLES
    \* DataGenerator
    pc,                    \* "new" | "ready" | "AssertionError" | "ValueError"
    features, labels, labels_2, n_samples, n, _index, auto_reset_generator,
    in_features, in_labels, in_labels_2,   \* the constructor's arguments
    ret,                   \* what the last call returned, if next_sample
    served,                \* features served since the cursor was last 0
    mid_shuffle,           \* shuffle_samples was called since then, cursor # 0
    calls, observed,       \* next_sample calls so far, while nothing else ran
    \* MetricAccumulator
    gradient_batch,
    training_data_loss, training_data_acc, testing_data_loss, testing_data_acc,
    training_data_loss_grads, training_data_acc_grads,
    testing_data_loss_grads, testing_data_acc_grads,
    adds,                  \* number of add calls made
    \* cached loaders
    cache,                 \* per loader: the keys lru_cache holds, oldest first
    loaded,                \* (loader, args) pairs whose files were read
    last,                  \* the last loader call and whether it hit the disk
    \* summary files
    files,                 \* per path: exists, content
    log,                   \* per path: the write_epoch_results calls made
    fresh                  \* per path: the file did not exist at the start

genVars == <<pc, features, labels, labels_2, n_samples, n, _index,
             auto_reset_generator, in_features, in_labels, in_labels_2,
             ret, served, mid_shuffle, calls, observed>>
accVars == <<gradient_batch, training_data_loss, training_data_acc,
             testing_data_loss, testing_data_acc, training_data_loss_grads,
             training_data_acc_grads, testing_data_loss_grads,
             testing_data_acc_grads, adds>>
cacheVars == <<cache, loaded, last>>
fileVars == <<files, log, fresh>>
vars == <<genVars, accVars, cacheVars, fileVars>>

\* ------------------------------------------------------------ Python glue
PyGet(xs, i) == xs[i + 1]

Abs(v) == IF v < 0 THEN -v ELSE v

SeqsUpTo(S, k) == UNION {[1..m -> S] : m \in 0..k}

\* labels_2 is None or a tensor
NoLabels2 == [present |-> FALSE, v |-> <<>>]
Labels2(v) == [present |-> TRUE, v |-> v]

\* ========================================================== DataGenerator

\* min(abs(labels)), for a non-empty tensor
MinAbs(ls) ==
    CHOOSE m \in {Abs(ls[i]) : i \in 1..Len(ls)} :
        \A i \in 1..Len(ls) : m <= Abs(ls[i])

\* labels + min(abs(labels))
ShiftLabels(ls) == [i \in 1..Len(ls) |-> ls[i] + MinAbs(ls)]

ConstructOutcomeUnchecked(nf, ls, l2) ==
    IF nf # Len(ls) THEN "AssertionError"
    ELSE IF Len(ls) = 0 THEN "ValueError"
    ELSE "ready"

\* how __init__ ends: the two assertions, and min() of an empty tensor
ConstructOutcome(nf, ls, l2) ==
    IF nf # Len(ls) THEN "AssertionError"
    ELSE IF Len(ls) = 0 THEN "ValueError"
    ELSE IF l2.present /\ Len(l2.v) # Len(ls) THEN "AssertionError"
    ELSE "ready"

NoReturn == [kind |-> "none", f |-> 0, l |-> 0, has2 |-> FALSE, l2 |-> 0]
IndexError == [kind |-> "IndexError", f |-> 0, l |-> 0, has2 |-> FALSE, l2 |-> 0]

\* DataGenerator(features, labels, labels_2, auto_reset_generator)
Construct(nf, ls, l2, auto) ==
    /\ pc = "new"
    /\ pc' = ConstructOutcome(nf, ls, l2)
    /\ in_features' = [i \in 1..nf |-> i]
    /\ in_labels' = ls
    /\ in_labels_2' = l2
    /\ IF pc' = "ready"
       THEN /\ features' = [i \in 1..nf |-> i]
            /\ labels' = ShiftLabels(ls)
            /\ n_samples' = Len(ls)
            /\ n' = 0
            /\ _index' = [i \in 1..Len(ls) |-> i - 1]
            /\ auto_reset_generator' = auto
            /\ labels_2' = l2
       ELSE UNCHANGED <<features, labels, n_samples, n, _index,
                        auto_reset_generator, labels_2>>
    /\ UNCHANGED <<ret, served, mid_shuffle, calls, observed>>
    /\ UNCHANGED <<accVars, cacheVars, fileVars>>

WrapsLate(m, ns, auto) == m > ns /\ auto

\* the test of _iterate: the call serves the last sample and auto-resets
Wraps(m, ns, auto) == m = ns /\ auto

SampleIndexLag(m) == IF m > 1 THEN m - 2 ELSE 0

\* the position _iterate reads after self.n += 1
SampleIndex(m) == m - 1

\* (features[i], labels[i][, labels_2[i]]), or the IndexError of the list
Fetch(i) ==
    IF i >= Len(features) THEN IndexError
    ELSE [kind |-> "sample",
          f |-> PyGet(features, i),
          l |-> PyGet(labels, i),
          has2 |-> labels_2.present,
          l2 |-> IF labels_2.present THEN PyGet(labels_2.v, i) ELSE 0]

ResetCursorOne == 0 + 1

\* reset_generator's assignment
ResetCursor == 0

\* next_sample() == next(self._iterate())
NextSample ==
    /\ pc = "ready"
    /\ n < n_samples + MaxOverrun
    /\ LET m == n + 1
           got == Fetch(SampleIndex(m))
           base == IF n = 0 THEN {} ELSE served
       IN /\ ret' = got
          /\ n' = IF Wraps(m, n_samples, auto_reset_generator)
                     /\ got.kind = "sample"
                  THEN ResetCursor ELSE m
          /\ served' = IF got.kind = "sample" THEN base \cup {got.f}
                       ELSE served
          /\ mid_shuffle' = IF n = 0 THEN FALSE ELSE mid_shuffle
    /\ IF observed /\ calls < MaxCalls
       THEN calls' = calls + 1 /\ observed' = TRUE
       ELSE calls' = 0 /\ observed' = FALSE
    /\ UNCHANGED <<pc, features, labels, labels_2, n_samples, _index,
                   auto_reset_generator, in_features, in_labels, in_labels_2>>
    /\ UNCHANGED <<accVars, cacheVars, fileVars>>

\* reset_generator()
ResetGenerator ==
    /\ pc = "ready"
    /\ n' = ResetCursor
    /\ ret' = NoReturn
    /\ calls' = 0 /\ observed' = FALSE
    /\ UNCHANGED <<pc, features, labels, labels_2, n_samples, _index,
                   auto_reset_generator, in_features, in_labels, in_labels_2,
                   served, mid_shuffle>>
    /\ UNCHANGED <<accVars, cacheVars, fileVars>>

\* the keys of {i: ... for i in idx}, in insertion order
Keys(idx) ==
    LET F[j \in 0..Len(idx)] ==
            IF j = 0 THEN <<>>
            ELSE IF \E m \in 1..(j - 1) : idx[m] = idx[j] THEN F[j - 1]
            ELSE Append(F[j - 1], idx[j])
    IN F[Len(idx)]

\* list({i: xs[i] for i in idx}.values())
Reindex(xs, idx) == [j \in 1..Len(Keys(idx)) |-> PyGet(xs, Keys(idx)[j])]

\* the orders random.shuffle can leave a list in
Shuffles(idx) ==
    {[j \in 1..Len(idx) |-> idx[p[j]]] :
        p \in {q \in [1..Len(idx) -> 1..Len(idx)] :
                  \A a, b \in 1..Len(idx) : q[a] = q[b] => a = b}}

ShuffleSamplesStale ==
    /\ pc = "ready"
    /\ \E idx \in Shuffles(_index) :
        /\ _index' = idx
        /\ labels' = Reindex(labels, idx)
        /\ features' = Reindex(features, idx)
        /\ labels_2' = labels_2
    /\ mid_shuffle' = (mid_shuffle \/ n # 0)
    /\ ret' = NoReturn
    /\ calls' = 0 /\ observed' = FALSE
    /\ UNCHANGED <<pc, n_samples, n, auto_reset_generator, in_features,
                   in_labels, in_labels_2, served>>
    /\ UNCHANGED <<accVars, cacheVars, fileVars>>

\* shuffle_samples()
ShuffleSamples ==
    /\ pc = "ready"
    /\ \E idx \in Shuffles(_index) :
        /\ _index' = idx
        /\ labels' = Reindex(labels, idx)
        /\ features' = Reindex(features, idx)
        /\ labels_2' = IF labels_2.present
                       THEN Labels2(Reindex(labels_2.v, idx))
                       ELSE labels_2
    /\ mid_shuffle' = (mid_shuffle \/ n # 0)
    /\ ret' = NoReturn
    /\ calls' = 0 /\ observed' = FALSE
    /\ UNCHANGED <<pc, n_samples, n, auto_reset_generator, in_features,
                   in_labels, in_labels_2, served>>
    /\ UNCHANGED <<accVars, cacheVars, fileVars>>

GenIdle ==
    /\ pc = "new"
    /\ features = <<>> /\ labels = <<>> /\ labels_2 = NoLabels2
    /\ n_samples = 0 /\ n = 0 /\ _index = <<>>
    /\ auto_reset_generator = TRUE
    /\ in_features = <<>> /\ in_labels = <<>> /\ in_labels_2 = NoLabels2
    /\ ret = NoReturn /\ served = {} /\ mid_shuffle = FALSE
    /\ calls = 0 /\ observed = TRUE

ConstructAny ==
    \E nf \in 0..MaxSamples, ls \in SeqsUpTo(LabelValues, MaxSamples),
       l2 \in {NoLabels2} \cup {Labels2(v) : v \in SeqsUpTo(Label2Values, MaxSamples)},
       auto \in BOOLEAN :
        Construct(nf, ls, l2, auto)

\* ====================================================== MetricAccumulator

EpochResults == {<<0, 1, 3, 2>>, <<1, 3, 0, 7>>}   \* epoch_results given to add

Min2(a, b) == IF a < b THEN a ELSE b
Max2(a, b) == IF a > b THEN a ELSE b

\* x[start:]
PySliceFrom(x, start) ==
    LET lo == IF start < 0 THEN Max2(Len(x) + start, 0) ELSE Min2(start, Len(x))
    IN SubSeq(x, lo + 1, Len(x))

\* round(num / den, 2) in hundredths, den > 0: nearest, a tie to the even one
RoundHundredths(num, den) ==
    LET q == (100 * num) \div den
        r == (100 * num) % den
    IN IF 2 * r < den THEN q
       ELSE IF 2 * r > den THEN q + 1
       ELSE IF q % 2 = 0 THEN q ELSE q + 1

metric_gradient_whole(x) ==
    RoundHundredths(x[Len(x)] - x[1], Len(x))

\* metric_gradient(x)
metric_gradient(x) ==
    LET data == PySliceFrom(x, -gradient_batch)
    IN RoundHundredths(data[Len(data)] - data[1], Len(data))

AllGradsInPlace ==
    /\ training_data_loss_grads' =
           Append(training_data_loss_grads, metric_gradient(training_data_loss'))
    /\ training_data_acc_grads' =
           Append(training_data_acc_grads, metric_gradient(training_data_acc'))
    /\ testing_data_loss_grads' =
           Append(testing_data_loss_grads, metric_gradient(testing_data_loss'))
    /\ testing_data_acc_grads' =
           <<metric_gradient(testing_data_acc')>> \o testing_data_acc_grads

\* _all_grads(), run on the series add has just extended
AllGrads ==
    /\ training_data_loss_grads' =
           Append(training_data_loss_grads, metric_gradient(training_data_loss'))
    /\ training_data_acc_grads' =
           Append(training_data_acc_grads, metric_gradient(training_data_acc'))
    /\ testing_data_loss_grads' =
           Append(testing_data_loss_grads, metric_gradient(testing_data_loss'))
    /\ testing_data_acc_grads' =
           Append(testing_data_acc_grads, metric_gradient(testing_data_acc'))

\* add(epoch_results)
Add(epoch_results) ==
    /\ adds < MaxAdds
    /\ training_data_loss' = Append(training_data_loss, PyGet(epoch_results, 0))
    /\ training_data_acc' = Append(training_data_acc, PyGet(epoch_results, 1))
    /\ testing_data_loss' = Append(testing_data_loss, PyGet(epoch_results, 2))
    /\ testing_data_acc' = Append(testing_data_acc, PyGet(epoch_results, 3))
    /\ AllGrads
    /\ adds' = adds + 1
    /\ UNCHANGED gradient_batch
    /\ UNCHANGED <<genVars, cacheVars, fileVars>>

AddAny == \E epoch_results \in EpochResults : Add(epoch_results)

AccEmpty ==
    /\ training_data_loss = <<>> /\ training_data_acc = <<>>
    /\ testing_data_loss = <<>> /\ testing_data_acc = <<>>
    /\ training_data_loss_grads = <<>> /\ training_data_acc_grads = <<>>
    /\ testing_data_loss_grads = <<>> /\ testing_data_acc_grads = <<>>
    /\ adds = 0

\* MetricAccumulator(gradient_batch), gradient_batch a count
AccInit == AccEmpty /\ gradient_batch \in 0..MaxBatch

AccIdle == AccEmpty /\ gradient_batch = 10

\* ========================================================= cached loaders

Loaders == {"load_training_data", "load_testing_data", "load_metadata"}
DataDirs == {"d1", "d2"}
Ks == {"None", "3"}

\* the argument tuples a loader is called with
ArgsOf(l) ==
    IF l = "load_metadata" THEN {<<d>> : d \in DataDirs}
    ELSE {<<d, k>> : d \in DataDirs, k \in Ks}

\* @lru_cache(maxsize=1)
maxsize == 1

Range(xs) == {xs[i] : i \in 1..Len(xs)}

CachedNever(l, a) == FALSE

\* lru_cache finds the key
Cached(l, a) == a \in Range(cache[l])

Uncalled == [called |-> FALSE, args |-> <<>>, disk |-> FALSE, again |-> FALSE]

\* a call loader(*a) through the lru_cache wrapper
Call(l, a) ==
    /\ IF Cached(l, a)
       THEN /\ cache' = [cache EXCEPT
                            ![l] = Append(SelectSeq(cache[l], LAMBDA k : k # a), a)]
            /\ loaded' = loaded
            /\ last' = [loader |-> l,
                        info |-> [last.info EXCEPT ![l] =
                            [called |-> TRUE, args |-> a,
                             disk |-> FALSE, again |-> FALSE]]]
       ELSE /\ cache' = [cache EXCEPT
                            ![l] = IF Len(cache[l]) >= maxsize
                                   THEN Append(Tail(cache[l]), a)
                                   ELSE Append(cache[l], a)]
            /\ loaded' = loaded \cup {<<l, a>>}
            /\ last' = [loader |-> l,
                        info |-> [last.info EXCEPT ![l] =
                            [called |-> TRUE, args |-> a,
                             disk |-> TRUE, again |-> <<l, a>> \in loaded]]]
    /\ UNCHANGED <<genVars, accVars, fileVars>>

CallAny == \E l \in Loaders : \E a \in ArgsOf(l) : Call(l, a)

CacheInit ==
    /\ cache = [l \in Loaders |-> <<>>]
    /\ loaded = {}
    /\ last = [loader |-> "none", info |-> [l \in Loaders |-> Uncalled]]

\* ========================================================== summary files

Paths == {"a.tsv", "b.tsv"}
Epochs == {1, 2}
ResultLists == {<<>>, <<5, 7>>}

TAB == "\t"
NL == "\n"

HeaderLine ==
    <<"epoch", TAB, "training_data_loss", TAB, "training_data_acc", TAB,
      "testing_data_loss", TAB, "testing_data_acc", TAB,
      "validation_data_loss", TAB, "validation_data_acc">>

\* str(i)
Str(v) == ToString(v)

\* "\t".join(ss)
RECURSIVE JoinTab(_)
JoinTab(ss) ==
    IF Len(ss) = 0 THEN <<>>
    ELSE IF Len(ss) = 1 THEN <<ss[1]>>
    ELSE <<ss[1], TAB>> \o JoinTab(Tail(ss))

\* str(epoch) + "\t" + "\t".join([str(i) for i in epoch_results])
Line(epoch, epoch_results) ==
    <<Str(epoch), TAB>>
        \o JoinTab([i \in 1..Len(epoch_results) |-> Str(epoch_results[i])])

Absent == [exists |-> FALSE, content |-> <<>>]

NeedsHeaderAlways(path) == TRUE

\* not os.path.isfile(summary_file)
NeedsHeader(path) == ~files[path].exists

\* write_epoch_results(epoch, epoch_results, summary_file)
WriteEpochResults(epoch, epoch_results, path) ==
    /\ Len(log["a.tsv"]) + Len(log["b.tsv"]) < MaxWrites
    /\ LET opened == IF NeedsHeader(path)
                     THEN HeaderLine \o <<NL>>          \* open(..., "w")
                     ELSE files[path].content           \* open(..., "a")
       IN files' = [files EXCEPT ![path] =
                       [exists |-> TRUE,
                        content |-> opened \o Line(epoch, epoch_results) \o <<NL>>]]
    /\ log' = [log EXCEPT ![path] = Append(log[path], <<epoch, epoch_results>>)]
    /\ UNCHANGED fresh
    /\ UNCHANGED <<genVars, accVars, cacheVars>>

WriteAny ==
    \E epoch \in Epochs, epoch_results \in ResultLists, path \in Paths :
        WriteEpochResults(epoch, epoch_results, path)

\* a path names no file, or a file someone else wrote
FileInit ==
    /\ files \in [Paths -> {Absent, [exists |-> TRUE, content |-> <<"old", NL>>]}]
    /\ log = [p \in Paths |-> <<>>]
    /\ fresh = [p \in Paths |-> ~files[p].exists]

FileIdle ==
    /\ files = [p \in Paths |-> Absent]
    /\ log = [p \in Paths |-> <<>>]
    /\ fresh = [p \in Paths |-> TRUE]

\* ========================================================= specifications

Init == GenIdle /\ AccIdle /\ CacheInit /\ FileIdle

Next ==
    \/ ConstructAny
    \/ NextSample
    \/ ResetGenerator
    \/ ShuffleSamples

\* a DataGenerator and its callers
Spec == Init /\ [][Next]_vars

InitAccumulator == GenIdle /\ AccInit /\ CacheInit /\ FileIdle

\* a MetricAccumulator and its callers
SpecAccumulator == InitAccumulator /\ [][AddAny]_vars

\* the three cached loaders and their callers
SpecLoaders == Init /\ [][CallAny]_vars

InitSummary == GenIdle /\ AccIdle /\ CacheInit /\ FileInit

\* the summary files and the callers of write_epoch_results
SpecSummary == InitSummary /\ [][WriteAny]_vars

\* ================================================================ claims

Ready == pc = "ready"
Positions == 1..n_samples

\* what the constructor stored at position p (1-based) of its input
StoredAt(p) ==
    [kind |-> "sample",
     f |-> in_features[p],
     l |-> ShiftLabels(in_labels)[p],
     has2 |-> in_labels_2.present,
     l2 |-> IF in_labels_2.present THEN in_labels_2.v[p] ELSE 0]

\* what the generator holds at position p (1-based) now
HeldAt(p) ==
    [kind |-> "sample",
     f |-> features[p],
     l |-> labels[p],
     has2 |-> labels_2.present,
     l2 |-> IF labels_2.present THEN labels_2.v[p] ELSE 0]

\* C1: with auto_reset_generator, while only next_sample has been called, the
\* k-th call returned the sample the constructor stored at position
\* (k-1) mod n_samples, the cursor after it is k mod n_samples, and the
\* cursor is in 0..n_samples-1 between calls.
C1_Cycle ==
    (Ready /\ auto_reset_generator /\ observed) =>
        /\ n \in 0..(n_samples - 1)
        /\ n = calls % n_samples
        /\ calls >= 1 => ret = StoredAt(((calls - 1) % n_samples) + 1)

C1_Witness ==
    /\ Ready /\ auto_reset_generator /\ observed
    /\ n_samples = 2 /\ calls = 3 /\ n = 1
    /\ ret.kind = "sample" /\ ret.f = 1

LengthsAgree ==
    Ready =>
        /\ n_samples >= 1
        /\ Len(features) = n_samples
        /\ Len(labels) = n_samples
        /\ labels_2.present => Len(labels_2.v) = n_samples

LengthsDiffer ==
    /\ pc # "new"
    /\ \/ Len(in_features) # Len(in_labels)
       \/ in_labels_2.present /\ Len(in_labels_2.v) # Len(in_labels)

\* C2 (as stated): the three lengths agree in every state of a constructed
\* generator, and a construction with features and labels, or labels_2 and
\* labels, of different lengths is rejected by an assertion.
C2_Original ==
    /\ LengthsAgree
    /\ LengthsDiffer => pc = "AssertionError"

\* C2 (amended): the three lengths agree in every state of a constructed
\* generator, and a construction with lengths that differ is rejected: by an
\* assertion, or, when features and labels are both empty, by the ValueError
\* of min() over an empty sequence, raised before labels_2 is looked at.
C2_Amended ==
    /\ LengthsAgree
    /\ LengthsDiffer =>
          \/ pc = "AssertionError"
          \/ pc = "ValueError" /\ in_features = <<>> /\ in_labels = <<>>

C2_Witness ==
    /\ Ready /\ labels_2.present /\ n_samples = 2
    /\ features = <<2, 1>> /\ n = 1

\* C5: after construction every stored label is non-negative.
C5_NonNegative ==
    Ready => \A i \in 1..Len(labels) : labels[i] >= 0

IsPermutation(idx, k) ==
    /\ Len(idx) = k
    /\ \A v \in 0..(k - 1) : \E j \in 1..k : idx[j] = v

Count(triple) == Cardinality({p \in Positions : HeldAt(p) = triple})
Count0(triple) == Cardinality({p \in Positions : StoredAt(p) = triple})

\* C6: _index is a permutation of 0..n_samples-1, the stored (feature, label,
\* label_2) triples are, as a multiset, those of the construction, and a
\* sample returned by next_sample is a triple of one position of the input.
C6_OnePermutation ==
    Ready =>
        /\ IsPermutation(_index, n_samples)
        /\ \A p \in Positions :
              /\ Count(HeldAt(p)) = Count0(HeldAt(p))
              /\ Count(StoredAt(p)) = Count0(StoredAt(p))
        /\ ret.kind = "sample" => \E p \in Positions : ret = StoredAt(p)

C6_Witness ==
    /\ Ready /\ n_samples = 2 /\ labels_2.present
    /\ in_labels[1] # in_labels[2]
    /\ in_labels_2.v[1] # in_labels_2.v[2]
    /\ features = <<2, 1>> /\ _index = <<1, 0>>
    /\ ret.kind = "sample" /\ ret.f = 2 /\ n = 1

\* the last call was the next_sample call that wrapped the cursor
JustWrapped ==
    Ready /\ auto_reset_generator /\ ret.kind = "sample" /\ n = 0

\* C8 (as stated): with auto reset, the n_samples calls from cursor 0 to the
\* wrap serve every original sample exactly once, wherever shuffle_samples is
\* called between them.
C8_Original == JustWrapped => served = Positions

\* C8 (amended): with auto reset, the n_samples calls from cursor 0 to the
\* wrap serve every original sample exactly once, provided shuffle_samples is
\* not called between them (it may be called while the cursor is 0).
C8_Amended == (JustWrapped /\ ~mid_shuffle) => served = Positions

C8_Witness ==
    /\ JustWrapped /\ ~mid_shuffle /\ n_samples = 2
    /\ features = <<2, 1>> /\ ret.f = 1

\* C9 (as stated): without auto reset, a call made after all samples were
\* served fails and leaves the cursor where it was, so that the cursor never
\* exceeds n_samples.
C9_Original ==
    (Ready /\ ~auto_reset_generator) =>
        /\ n <= n_samples
        /\ ret.kind = "IndexError" => n = n_samples

\* C9 (amended): without auto reset, a call made after all samples were
\* served fails with an index error, moves the cursor one further (so the
\* cursor exceeds n_samples) and leaves features, labels and labels_2 as
\* they were; reset_generator puts the cursor at 0 and the call after it
\* serves position 0.
C9_Amended ==
    [][/\ (NextSample /\ ~auto_reset_generator /\ n >= n_samples) =>
             /\ ret'.kind = "IndexError"
             /\ n' = n + 1
             /\ UNCHANGED <<features, labels, labels_2>>
       /\ (NextSample /\ ~auto_reset_generator /\ n < n_samples) =>
             /\ ret' = HeldAt(n + 1)
             /\ n' = n + 1
       /\ ResetGenerator => n' = 0]_vars

C9_Witness ==
    /\ Ready /\ ~auto_reset_generator
    /\ ret.kind = "IndexError" /\ n = n_samples + 2

Series ==
    <<training_data_loss, training_data_acc, testing_data_loss, testing_data_acc>>
Grads ==
    <<training_data_loss_grads, training_data_acc_grads,
      testing_data_loss_grads, testing_data_acc_grads>>

IsPrefix(a, b) == Len(a) <= Len(b) /\ SubSeq(b, 1, Len(a)) = a

\* C3: the eight series all have as many elements as add calls were made, and
\* an add call appends one element to each and leaves the others in place.
C3_AppendOnly ==
    /\ [](\A s \in 1..4 : Len(Series[s]) = adds /\ Len(Grads[s]) = adds)
    /\ [][\A s \in 1..4 :
             /\ IsPrefix(Series[s], Series[s]') /\ IsPrefix(Grads[s], Grads[s]')
             /\ Len(Series[s]') = Len(Series[s]) + (adds' - adds)
             /\ Len(Grads[s]') = Len(Grads[s]) + (adds' - adds)
             /\ adds' - adds \in {0, 1}]_vars

C3_Witness ==
    /\ adds = 3 /\ gradient_batch = 2
    /\ training_data_loss = <<0, 1, 0>>
    /\ Len(testing_data_acc_grads) = 3

\* v, in hundredths, is num / den rounded to two decimals
IsRounded(v, num, den) == 2 * Abs(v * den - 100 * num) <= den

\* the gradient at place i of gs is the slope over the last size values of
\* the first i values of xs
IsSlope(gs, xs, i, size) ==
    /\ size >= 1
    /\ IsRounded(gs[i], xs[i] - xs[i - size + 1], size)

\* C7 (as stated): the gradient an add appends is the slope over the last
\* gradient_batch values of its series, or over the whole series when that
\* holds fewer; the window never holds more than gradient_batch values and
\* the first gradient is 0.
C7_Original ==
    \A s \in 1..4 : \A i \in 1..Len(Grads[s]) :
        /\ IsSlope(Grads[s], Series[s], i, Min2(i, gradient_batch))
        /\ i = 1 => Grads[s][i] = 0

\* C7 (amended): for gradient_batch >= 1 as stated; for gradient_batch = 0
\* the window is the whole series.  The first gradient is 0.
C7_Amended ==
    \A s \in 1..4 : \A i \in 1..Len(Grads[s]) :
        /\ IsSlope(Grads[s], Series[s], i,
                   IF gradient_batch = 0 THEN i ELSE Min2(i, gradient_batch))
        /\ i = 1 => Grads[s][i] = 0

C7_Witness ==
    /\ gradient_batch = 3 /\ adds = 5
    /\ testing_data_loss = <<3, 3, 0, 0, 0>>
    /\ testing_data_loss_grads = <<0, 0, -100, -100, 0>>

\* C4 (as stated): the files of an argument tuple are read at most once,
\* whatever calls with other arguments happen in between.
C4_Original ==
    \A l \in Loaders : ~last.info[l].again

\* C4 (amended): a call reads no file exactly when the previous call to the
\* same loader had the same arguments; a call with other arguments in between
\* evicts the entry, and the files are then read again.
C4_Amended ==
    [][LET l == last'.loader
       IN l # "none" =>
            /\ last'.info[l].called
            /\ last'.info[l].disk =
                  ~(last.info[l].called /\ last.info[l].args = last'.info[l].args)]_vars

C4_Witness ==
    /\ last.loader = "load_training_data"
    /\ ~last.info["load_training_data"].disk
    /\ last.info["load_testing_data"].called
    /\ last.info["load_testing_data"].args # last.info["load_training_data"].args

\* the lines of a text, each ended by a newline
RECURSIVE SplitLines(_, _)
SplitLines(text, cur) ==
    IF text = <<>> THEN (IF cur = <<>> THEN <<>> ELSE <<cur>>)
    ELSE IF Head(text) = NL THEN <<cur>> \o SplitLines(Tail(text), <<>>)
    ELSE SplitLines(Tail(text), Append(cur, Head(text)))

\* the line is the epoch, a tab, and the results with tabs between them
IsDataLine(line, call) ==
    LET epoch == call[1]
        results == call[2]
        k == Len(results)
    IN /\ Len(line) = 2 + (IF k = 0 THEN 0 ELSE 2 * k - 1)
       /\ line[1] = ToString(epoch)
       /\ line[2] = TAB
       /\ \A j \in 1..k : line[2 * j + 1] = ToString(results[j])
       /\ \A j \in 1..(k - 1) : line[2 * j + 2] = TAB

\* C10: after m >= 1 calls on a file that did not exist, the file is one
\* header line and then m data lines, in call order.
C10_HeaderOnce ==
    \A p \in Paths :
        (fresh[p] /\ Len(log[p]) >= 1) =>
            LET lines == SplitLines(files[p].content, <<>>)
            IN /\ files[p].exists
               /\ files[p].content[Len(files[p].content)] = NL
               /\ Len(lines) = Len(log[p]) + 1
               /\ lines[1] = HeaderLine
               /\ \A i \in 1..Len(log[p]) : IsDataLine(lines[i + 1], log[p][i])

C10_Witness ==
    /\ fresh["a.tsv"] /\ Len(log["a.tsv"]) = 3
    /\ log["a.tsv"][1] = <<1, <<5, 7>>>> /\ log["a.tsv"][3] = <<2, <<>>>>

====
